---- MODULE Spec2Model ----
(***************************************************************************)
(* Model of st_app.py: one run of the batch job that reads a spreadsheet,  *)
(* computes a payment probability per data row with a pre-trained model    *)
(* and writes the augmented table back.                                    *)
(*                                                                         *)
(* Every Python string (header cell, data cell, feature name, range) is a  *)
(* sequence of one-character strings, so that strip, replace, startswith,  *)
(* slicing, float parsing and formatting are computed on characters.       *)
(* A parsed float is the exact decimal [num, scale] = num / 10^scale with  *)
(* trailing fractional zeros removed (binary rounding is not modelled).    *)
(***************************************************************************)
EXTENDS Integers, Sequences, FiniteSets, TLC

(***************************************************************************)
(* Bounds of the model.                                                    *)
(***************************************************************************)
\* largest number of data rows in a sheet that is read
MaxRows == 4
\* largest column count fed to the column-letter loop in SpecCol
MaxColCount == 760

(***************************************************************************)
(* String literals of the program.                                         *)
(***************************************************************************)
s_Probabilidade == <<"P","r","o","b","a","b","i","l","i","d","a","d","e">>
s_Valor_Parcela == <<"V","a","l","o","r","_","P","a","r","c","e","l","a">>
s_Quant_Boletos_Pagos ==
  <<"Q","u","a","n","t","_","B","o","l","e","t","o","s","_","P","a","g","o","s">>
s_Idade == <<"I","d","a","d","e">>
s_ValorQuitacao == <<"V","a","l","o","r","Q","u","i","t","a","c","a","o">>
s_Atraso == <<"A","t","r","a","s","o">>
s_Quant_Pagamentos_Via_Boleto ==
  <<"Q","u","a","n","t","_","P","a","g","a","m","e","n","t","o","s","_",
    "V","i","a","_","B","o","l","e","t","o">>
s_Quant_Ocorrencia ==
  <<"Q","u","a","n","t","_","O","c","o","r","r","e","n","c","i","a">>
s_UF == <<"U","F">>
s_UF_ == <<"U","F","_">>
s_Cliente == <<"C","l","i","e","n","t","e">>
s_Pagina1 == <<"P","á","g","i","n","a","1">>

RANGE_NAME == s_Pagina1 \o <<"!","A",":","G">>

\* COLUMN_MAPPING.items(), in insertion order: <<sheet name, model name>>
COLUMN_MAPPING ==
  << <<s_Valor_Parcela, s_ValorQuitacao>>,
     <<s_Quant_Boletos_Pagos, s_Quant_Pagamentos_Via_Boleto>>,
     <<s_Idade, s_Quant_Ocorrencia>> >>

model_features_from_sheet ==
  <<s_ValorQuitacao, s_Atraso, s_Quant_Pagamentos_Via_Boleto,
    s_Quant_Ocorrencia, s_UF>>

(***************************************************************************)
(* Python built-ins used by the program, on character sequences.           *)
(***************************************************************************)
Range(s) == {s[k] : k \in DOMAIN s}

\* list.index(x): position (1-based) of the first element equal to x, 0 if none
RECURSIVE IndexFrom(_, _, _)
IndexFrom(s, x, k) ==
  IF k > Len(s) THEN 0
  ELSE IF s[k] = x THEN k
  ELSE IndexFrom(s, x, k + 1)

index(s, x) == IndexFrom(s, x, 1)

Whitespace == {" ", "\t"}

RECURSIVE lstrip(_)
lstrip(s) ==
  IF s # <<>> /\ Head(s) \in Whitespace THEN lstrip(Tail(s)) ELSE s

RECURSIVE rstrip(_)
rstrip(s) ==
  IF s # <<>> /\ s[Len(s)] \in Whitespace
  THEN rstrip(SubSeq(s, 1, Len(s) - 1))
  ELSE s

\* str.strip()
strip(s) == rstrip(lstrip(s))

\* str.replace(',', '.')
replace_comma(s) == [k \in DOMAIN s |-> IF s[k] = "," THEN "." ELSE s[k]]

\* str.replace('.', ',')
replace_dot(s) == [k \in DOMAIN s |-> IF s[k] = "." THEN "," ELSE s[k]]

\* str.startswith(prefix)
startswith(s, prefix) ==
  /\ Len(s) >= Len(prefix)
  /\ SubSeq(s, 1, Len(prefix)) = prefix

\* s[3:]
slice3(s) == SubSeq(s, 4, Len(s))

\* s.split('!')[0] if '!' in s else 'Página1'
sheet_name_of(r) ==
  IF "!" \in Range(r) THEN SubSeq(r, 1, index(r, "!") - 1) ELSE s_Pagina1

DigitChars == <<"0","1","2","3","4","5","6","7","8","9">>

DigitSet == Range(DigitChars)

DigitVal(c) == index(DigitChars, c) - 1

DigitChar(d) == DigitChars[d + 1]

\* str(n) for a natural number n
RECURSIVE DecimalStr(_)
DecimalStr(n) ==
  IF n < 10 THEN <<DigitChar(n)>>
  ELSE Append(DecimalStr(n \div 10), DigitChar(n % 10))

\* the integer written by a sequence of digits
RECURSIVE DigitsVal(_)
DigitsVal(s) ==
  IF s = <<>> THEN 0
  ELSE 10 * DigitsVal(SubSeq(s, 1, Len(s) - 1)) + DigitVal(s[Len(s)])

RECURSIVE Normalize(_)
Normalize(f) ==
  IF f.scale > 0 /\ f.num % 10 = 0
  THEN Normalize([num |-> f.num \div 10, scale |-> f.scale - 1])
  ELSE f

Float(n, sc) == Normalize([num |-> n, scale |-> sc])

Zero == Float(0, 0)

One == Float(1, 0)

\* float(s) accepts s: unsigned decimal digits with at most one point.
\* (Signs, exponents, nan/inf and underscores are not among the cells read.)
FloatOk(s) ==
  /\ Range(s) \subseteq DigitSet \cup {"."}
  /\ Cardinality({k \in DOMAIN s : s[k] = "."}) <= 1
  /\ \E k \in DOMAIN s : s[k] \in DigitSet

\* float(s) for FloatOk(s)
FloatVal(s) ==
  LET p == index(s, ".")
      digits == IF p = 0 THEN s
                ELSE SubSeq(s, 1, p - 1) \o SubSeq(s, p + 1, Len(s))
  IN Float(DigitsVal(digits), IF p = 0 THEN 0 ELSE Len(s) - p)

\* f"{prob:.4f}" for a probability given in ten-thousandths (0..10000)
Format4f(p) ==
  DecimalStr(p \div 10000) \o <<".">> \o
  <<DigitChar((p \div 1000) % 10), DigitChar((p \div 100) % 10),
    DigitChar((p \div 10) % 10), DigitChar(p % 10)>>

(***************************************************************************)
(* Inputs of a run: what the read call can return and which model/encoder  *)
(* pair the artifact file can hold.                                        *)
(***************************************************************************)
\* headers (first row of the read range)
HeaderFirstRun ==
  <<s_Cliente, s_Valor_Parcela, s_Atraso, s_Quant_Boletos_Pagos, s_Idade, s_UF>>

HeaderSecondRun == Append(HeaderFirstRun, s_Probabilidade)

HeaderMissingIdade ==
  <<s_Cliente, s_Valor_Parcela, s_Atraso, s_Quant_Boletos_Pagos, s_UF>>

HeaderDuplicates ==
  <<s_UF, s_Atraso, s_Idade, s_Quant_Boletos_Pagos, s_Valor_Parcela,
    s_Atraso, s_UF>>

HeaderCanonicalNames ==
  <<s_Cliente, s_ValorQuitacao, s_Atraso, s_Quant_Pagamentos_Via_Boleto,
    s_Quant_Ocorrencia, s_UF>>

HeaderChoices ==
  {HeaderFirstRun, HeaderSecondRun, HeaderMissingIdade, HeaderDuplicates,
   HeaderCanonicalNames, <<s_Cliente>>, <<s_Probabilidade>>, <<>>}

\* data rows, as the API returns them (trailing empty cells are cut)
RowChoices ==
  << <<<<"J">>, <<"1","5","0",",","5","0">>, <<"1","0">>, <<"3">>, <<"2">>,
       <<"C","E">>>>,
     <<<<"M">>, <<" ">>, <<"1","0">>, <<"3">>, <<"2">>, <<"S","P">>>>,
     <<<<"A">>, <<"1">>, <<"1","0">>, <<"3">>, <<" ","2"," ">>>>,
     <<<<"B">>, <<"1",".","5">>, <<"x","1">>, <<"3">>, <<"2">>, <<"A","L">>>>,
     <<<<"C">>, <<" ","7"," ">>, <<"1">>, <<"3">>, <<"2">>, <<"X","X">>>>,
     <<<<"D">>, <<"2">>, <<"1">>, <<"3">>, <<"2">>, <<"A","L">>,
       <<"0",",","8","2","3","1">>>>,
     <<<<"S","P">>, <<"4">>, <<"2">>, <<"3">>, <<"1",",","5">>, <<"9">>,
       <<"C","E">>>>,
     <<>> >>

NumRowChoices == Len(RowChoices)

\* the sheets read: every table of at most two data rows, and longer tables
\* whose rows run through RowChoices from a start a with a stride b
SheetRows ==
  {<<>>}
  \cup {<<RowChoices[a]>> : a \in 1..NumRowChoices}
  \cup {[k \in 1..n |-> RowChoices[((a + k * b) % NumRowChoices) + 1]] :
          a \in 0..(NumRowChoices - 1), b \in 0..(NumRowChoices - 1),
          n \in 2..MaxRows}

Sheets ==
  {<<>>} \cup {<<h>> \o rows : h \in HeaderChoices, rows \in SheetRows}

\* fitted categories of the encoder
CategoriesFitted == <<<<"A","L">>, <<"C","E">>, <<"S","P">>>>

UF_(c) == s_UF_ \o c

\* the (model, encoder) pairs joblib.load can return
Artifacts ==
  { [feature_names_in_ |->
       <<s_ValorQuitacao, s_Atraso, s_Quant_Pagamentos_Via_Boleto,
         s_Quant_Ocorrencia, UF_(<<"C","E">>), UF_(<<"S","P">>)>>,
     categories_ |-> CategoriesFitted,
     handle_unknown |-> "ignore", drop |-> "first"],
    [feature_names_in_ |->
       <<s_Atraso, s_ValorQuitacao, UF_(<<"A","L">>), UF_(<<"C","E">>),
         UF_(<<"S","P">>), s_Quant_Pagamentos_Via_Boleto, s_Quant_Ocorrencia>>,
     categories_ |-> CategoriesFitted,
     handle_unknown |-> "error", drop |-> "none"],
    [feature_names_in_ |->
       <<s_ValorQuitacao, s_Idade, s_Atraso, s_Quant_Pagamentos_Via_Boleto,
         s_Quant_Ocorrencia, UF_(<<"R","J">>), UF_(<<"S","P">>)>>,
     categories_ |-> CategoriesFitted,
     handle_unknown |-> "error", drop |-> "first"] }

\* what predict_proba can do on one input: raise, or return the probability
\* of class 1 (in ten-thousandths)
ProbChoices == {8231, 10000}

PredictOutcomes ==
  {[raises |-> TRUE, prob |-> 0]}
  \cup {[raises |-> FALSE, prob |-> p] : p \in ProbChoices}

(***************************************************************************)
(* process_sheet_data: header resolution.                                  *)
(***************************************************************************)
\* the scan of COLUMN_MAPPING.items() for a value equal to the feature name:
\* the key of the first such item, 0 when there is none
RECURSIVE MappedFrom(_, _)
MappedFrom(model_feature_name, k) ==
  IF k > Len(COLUMN_MAPPING) THEN 0
  ELSE IF COLUMN_MAPPING[k][2] = model_feature_name THEN k
  ELSE MappedFrom(model_feature_name, k + 1)

\* the column name looked up in the header for a model feature
sheet_col_name_to_find(model_feature_name) ==
  LET k == MappedFrom(model_feature_name, 1)
  IN IF model_feature_name = s_UF THEN s_UF
     ELSE IF k # 0 THEN COLUMN_MAPPING[k][1]
     ELSE model_feature_name

\* (variant: a missing column is skipped and the others are kept)
RECURSIVE ResolveFromPartial(_, _, _)
ResolveFromPartial(header, k, acc) ==
  IF k > Len(model_features_from_sheet) THEN [ok |-> TRUE, map |-> acc]
  ELSE LET f == model_features_from_sheet[k]
           p == index(header, sheet_col_name_to_find(f))
       IN IF p = 0 THEN ResolveFromPartial(header, k + 1, acc)
          ELSE ResolveFromPartial(header, k + 1, acc @@ (f :> p))

\* the loop that fills idx_map_original, from feature k on; positions are
\* 1-based (Python's index + 1).  A missing column ends the whole function
\* with None: [ok |-> FALSE] and no map.
RECURSIVE ResolveFrom(_, _, _)
ResolveFrom(header, k, acc) ==
  IF k > Len(model_features_from_sheet) THEN [ok |-> TRUE, map |-> acc]
  ELSE LET f == model_features_from_sheet[k]
           p == index(header, sheet_col_name_to_find(f))
       IN IF p = 0 THEN [ok |-> FALSE, map |-> <<>>]
          ELSE ResolveFrom(header, k + 1, acc @@ (f :> p))

ResolveHeaderOp(header) == ResolveFrom(header, 1, <<>>)

\* (variant: the column name is never appended)
UpdatedHeaderNoAppend(header) == header

\* updated_header: the header read, with 'Probabilidade' appended if absent
UpdatedHeader(header) ==
  IF s_Probabilidade \notin Range(header)
  THEN Append(header, s_Probabilidade)
  ELSE header

\* the table returned when there is a header and no data row
HeaderOnlyTable(header) == <<header \o <<s_Probabilidade>>>>

(***************************************************************************)
(* process_sheet_data: one iteration of the row loop.                      *)
(***************************************************************************)
\* row[:] padded with '' up to the length of the header read
RECURSIVE PadRow(_, _)
PadRow(row, n) ==
  IF Len(row) < n THEN PadRow(Append(row, <<>>), n) ELSE row

\* the stripped cell read for a feature
CellOf(row_processed, idx, f) == strip(row_processed[idx[f]])

\* (variant: the region code is left out of the emptiness test)
HasEmptyFieldNumericOnly(row_processed, idx) ==
  \E k \in 1..(Len(model_features_from_sheet) - 1) :
    CellOf(row_processed, idx, model_features_from_sheet[k]) = <<>>

\* some required cell is empty after strip
HasEmptyField(row_processed, idx) ==
  \E k \in DOMAIN model_features_from_sheet :
    CellOf(row_processed, idx, model_features_from_sheet[k]) = <<>>

NumericFeatures ==
  <<s_ValorQuitacao, s_Atraso, s_Quant_Pagamentos_Via_Boleto,
    s_Quant_Ocorrencia>>

\* one of the four float(...) conversions raises ValueError
HasParseError(row_processed, idx) ==
  \E k \in DOMAIN NumericFeatures :
    ~FloatOk(replace_comma(CellOf(row_processed, idx, NumericFeatures[k])))

\* processed_numerical_values
NumericalValues(row_processed, idx) ==
  [f \in Range(NumericFeatures) |->
     FloatVal(replace_comma(CellOf(row_processed, idx, f)))]

\* the categories that have a column in the encoder's output
EncodedCategories(art) ==
  IF art.drop = "first" THEN Tail(art.categories_) ELSE art.categories_

\* encoder.transform raises on a category it was not fitted on
EncoderRaises(art, uf) ==
  art.handle_unknown = "error" /\ uf \notin Range(art.categories_)

\* encoder.transform([[uf]])[0, :]
EncoderTransform(art, uf) ==
  [k \in DOMAIN EncodedCategories(art) |->
     IF EncodedCategories(art)[k] = uf THEN One ELSE Zero]

\* (variant: the category is cut from the feature name one character early)
FeatureValueSlice2(art, feature_name, nums, uf_encoded) ==
  IF feature_name \in DOMAIN nums THEN nums[feature_name]
  ELSE IF startswith(feature_name, s_UF_) THEN
    LET uf_category == SubSeq(feature_name, 3, Len(feature_name))
        ufs_categories == art.categories_
    IN IF art.drop = "first" /\ Len(ufs_categories) > 0
       THEN LET categories_after_drop == Tail(ufs_categories)
            IN IF uf_category \in Range(categories_after_drop)
               THEN uf_encoded[index(categories_after_drop, uf_category)]
               ELSE Zero
       ELSE IF uf_category \in Range(ufs_categories)
            THEN uf_encoded[index(ufs_categories, uf_category)]
            ELSE Zero
  ELSE Zero

\* the entry of the input vector for one name of model.feature_names_in_
FeatureValue(art, feature_name, nums, uf_encoded) ==
  IF feature_name \in DOMAIN nums THEN nums[feature_name]
  ELSE IF startswith(feature_name, s_UF_) THEN
    LET uf_category == slice3(feature_name)
        ufs_categories == art.categories_
    IN IF art.drop = "first" /\ Len(ufs_categories) > 0
       THEN LET categories_after_drop == Tail(ufs_categories)
            IN IF uf_category \in Range(categories_after_drop)
               THEN uf_encoded[index(categories_after_drop, uf_category)]
               ELSE Zero
       ELSE IF uf_category \in Range(ufs_categories)
            THEN uf_encoded[index(ufs_categories, uf_category)]
            ELSE Zero
  ELSE Zero

\* (variant: the numeric fields are placed first, whatever the model's order)
InputVectorNumericFirst(art, nums, uf_encoded) ==
  LET names == art.feature_names_in_
      ordered == SelectSeq(names, LAMBDA x : x \in DOMAIN nums)
                 \o SelectSeq(names, LAMBDA x : x \notin DOMAIN nums)
  IN [k \in DOMAIN names |-> FeatureValue(art, ordered[k], nums, uf_encoded)]

\* input_vector_list
InputVector(art, nums, uf_encoded) ==
  [k \in DOMAIN art.feature_names_in_ |->
     FeatureValue(art, art.feature_names_in_[k], nums, uf_encoded)]

\* f"{prob:.4f}".replace('.', ',')
FormatProb(p) == replace_dot(Format4f(p))

\* (variant: a model feature name that cannot be resolved fails the row)
FailStageUnresolvedFails(row_processed, idx, art, outcome) ==
  IF HasEmptyField(row_processed, idx) THEN "empty"
  ELSE IF HasParseError(row_processed, idx) THEN "parse"
  ELSE IF EncoderRaises(art, CellOf(row_processed, idx, s_UF)) THEN "encode"
  ELSE IF \E k \in DOMAIN art.feature_names_in_ :
            /\ art.feature_names_in_[k] \notin Range(NumericFeatures)
            /\ art.feature_names_in_[k] \notin
                 {s_UF_ \o c : c \in Range(EncodedCategories(art))}
       THEN "empty"
  ELSE IF outcome.raises THEN "predict"
  ELSE "none"

\* the point of the loop body where row_error is set ("none": nowhere)
FailStage(row_processed, idx, art, outcome) ==
  IF HasEmptyField(row_processed, idx) THEN "empty"
  ELSE IF HasParseError(row_processed, idx) THEN "parse"
  ELSE IF EncoderRaises(art, CellOf(row_processed, idx, s_UF)) THEN "encode"
  ELSE IF outcome.raises THEN "predict"
  ELSE "none"

\* the loop body for one row: the row appended to updated_values and what
\* the iteration did (calls to the encoder and the model, the input vector)
TransformRow(row, header, idx, art, outcome) ==
  LET row_processed == PadRow(row, Len(header))
      stage == FailStage(row_processed, idx, art, outcome)
      row_error == stage # "none"
      reached == stage \in {"predict", "none"}
      uf == CellOf(row_processed, idx, s_UF)
      prob_value == IF row_error THEN <<>> ELSE FormatProb(outcome.prob)
  IN [row_processed |-> row_processed,
      row_error |-> row_error,
      stage |-> stage,
      prob_value |-> prob_value,
      encoder_called |-> stage \in {"encode", "predict", "none"},
      model_called |-> reached,
      input_vector |->
        IF reached
        THEN InputVector(art, NumericalValues(row_processed, idx),
                         EncoderTransform(art, uf))
        ELSE <<>>,
      out_row |-> row_processed \o <<prob_value>>]

(***************************************************************************)
(* update_sheet: guard and range arithmetic.                               *)
(***************************************************************************)
\* len(COLUMN_MAPPING) + 2
MinHeaderLen == Len(COLUMN_MAPPING) + 2

\* the second guard reads updated_data[0][-1] of an empty header row:
\* IndexError
UpdateRaises(table) ==
  /\ table # <<>>
  /\ Len(table[1]) < MinHeaderLen
  /\ Len(table) = 1
  /\ table[1] = <<>>

\* update_sheet returns before any call (the two guards at its top)
UpdateRefused(table) ==
  IF table = <<>> THEN TRUE
  ELSE IF UpdateRaises(table) THEN FALSE
  ELSE /\ Len(table[1]) < MinHeaderLen
       /\ ~ (/\ Len(table) = 1
             /\ table[1][Len(table[1])] = s_Probabilidade
             /\ Len(table[1]) > 1)

Letters ==
  <<"A","B","C","D","E","F","G","H","I","J","K","L","M",
    "N","O","P","Q","R","S","T","U","V","W","X","Y","Z">>

\* chr(ord('A') + remainder)
LetterOf(remainder) == Letters[remainder + 1]

\* (variant: plain base 26, without the -1)
ColLoopBodyPlainBase26(temp_index, letter) ==
  [temp_index |-> temp_index \div 26,
   letter |-> <<LetterOf(temp_index % 26)>> \o letter]

\* one iteration of the while loop: the new (temp_index, letter)
ColLoopBody(temp_index, letter) ==
  [temp_index |-> (temp_index - 1) \div 26,
   letter |-> <<LetterOf((temp_index - 1) % 26)>> \o letter]

\* the whole computation of update_last_col_letter for a column count
RECURSIVE ColLoop(_, _)
ColLoop(temp_index, letter) ==
  IF temp_index > 0
  THEN LET b == ColLoopBody(temp_index, letter)
       IN ColLoop(b.temp_index, b.letter)
  ELSE letter

ColLetter(n) == IF n = 0 THEN <<"A">> ELSE ColLoop(n, <<>>)

\* (variant: the range starts under the header row)
RangeStringFromA2(sheet, letter, num_rows) ==
  sheet \o <<"!">> \o <<"A","2",":">> \o letter \o DecimalStr(num_rows)

\* f'{sheet_name_from_range}!A1:{update_last_col_letter}{num_rows_to_update}'
RangeString(sheet, letter, num_rows) ==
  sheet \o <<"!">> \o <<"A","1",":">> \o letter \o DecimalStr(num_rows)

(***************************************************************************)
(* State of one run of the script.                                         *)
(***************************************************************************)
VARIABLES
  pc,                    \* position of the script
  artifact,              \* (model, encoder) returned by load_model_and_encoder
  values,                \* result.get('values', []) of the read call
  header_original,       \* values[0]
  data_rows,             \* values[1:]
  idx_map_original,      \* feature name -> position in header_original
  updated_values,        \* the table being built
  i,                     \* number of data rows the loop has gone through
  processed_rows_count,
  errored_rows_count,
  row_log,               \* per row gone through: what the iteration did
  updated_data,          \* what process_sheet_data returned
  num_rows_to_update,
  num_cols_to_update,
  temp_index,
  update_last_col_letter,
  update_range_string,
  read_calls,            \* values().get(...).execute() calls issued
  write_calls,           \* values().update(...).execute() calls issued
  written                \* range and body of the write call issued

vars ==
  <<pc, artifact, values, header_original, data_rows, idx_map_original,
    updated_values, i, processed_rows_count, errored_rows_count, row_log,
    updated_data, num_rows_to_update, num_cols_to_update, temp_index,
    update_last_col_letter, update_range_string, read_calls, write_calls,
    written>>

NoArtifact ==
  [feature_names_in_ |-> <<>>, categories_ |-> <<>>,
   handle_unknown |-> "", drop |-> ""]

Unset == [kind |-> "unset", table |-> <<>>]

ReturnNone == [kind |-> "None", table |-> <<>>]

ReturnTable(t) == [kind |-> "table", table |-> t]

NotWritten == [issued |-> FALSE, range |-> <<>>, body |-> <<>>]

procVars ==
  <<values, header_original, data_rows, idx_map_original, updated_values, i,
    processed_rows_count, errored_rows_count, row_log>>

rangeVars ==
  <<num_rows_to_update, num_cols_to_update, temp_index,
    update_last_col_letter, update_range_string>>

Init ==
  /\ pc = "start"
  /\ artifact = NoArtifact
  /\ values = <<>>
  /\ header_original = <<>>
  /\ data_rows = <<>>
  /\ idx_map_original = <<>>
  /\ updated_values = <<>>
  /\ i = 0
  /\ processed_rows_count = 0
  /\ errored_rows_count = 0
  /\ row_log = <<>>
  /\ updated_data = Unset
  /\ num_rows_to_update = 0
  /\ num_cols_to_update = 0
  /\ temp_index = 0
  /\ update_last_col_letter = <<>>
  /\ update_range_string = <<>>
  /\ read_calls = 0
  /\ write_calls = 0
  /\ written = NotWritten

(***************************************************************************)
(* process_sheet_data                                                      *)
(***************************************************************************)
\* get_google_sheets_service() returns a service
GetServiceOk ==
  /\ pc = "start"
  /\ pc' = "load"
  /\ UNCHANGED <<artifact, procVars, updated_data, rangeVars, read_calls,
                 write_calls, written>>

\* get_google_sheets_service() fails (KeyError or other): st.stop()
GetServiceFail ==
  /\ pc = "start"
  /\ pc' = "stopped"
  /\ UNCHANGED <<artifact, procVars, updated_data, rangeVars, read_calls,
                 write_calls, written>>

\* load_model_and_encoder returns the pair
LoadModelOk ==
  /\ pc = "load"
  /\ \E a \in Artifacts : artifact' = a
  /\ pc' = "read"
  /\ UNCHANGED <<procVars, updated_data, rangeVars, read_calls, write_calls,
                 written>>

\* load_model_and_encoder fails: st.stop()
LoadModelFail ==
  /\ pc = "load"
  /\ pc' = "stopped"
  /\ UNCHANGED <<artifact, procVars, updated_data, rangeVars, read_calls,
                 write_calls, written>>

\* the read call returns the values of the range
ReadOk ==
  /\ pc = "read"
  /\ \E v \in Sheets : values' = v
  /\ read_calls' = read_calls + 1
  /\ pc' = "values"
  /\ UNCHANGED <<artifact, header_original, data_rows, idx_map_original,
                 updated_values, i, processed_rows_count, errored_rows_count,
                 row_log, updated_data, rangeVars, write_calls, written>>

\* the read call raises: return None
ReadFail ==
  /\ pc = "read"
  /\ read_calls' = read_calls + 1
  /\ updated_data' = ReturnNone
  /\ pc' = "returned"
  /\ UNCHANGED <<artifact, procVars, rangeVars, write_calls, written>>

\* not values: return []
NoValues ==
  /\ pc = "values"
  /\ values = <<>>
  /\ updated_data' = ReturnTable(<<>>)
  /\ pc' = "returned"
  /\ UNCHANGED <<artifact, procVars, rangeVars, read_calls, write_calls,
                 written>>

\* not data_rows: return [header_original + ['Probabilidade']]
HeaderOnly ==
  /\ pc = "values"
  /\ values # <<>>
  /\ Tail(values) = <<>>
  /\ header_original' = Head(values)
  /\ data_rows' = Tail(values)
  /\ updated_data' = ReturnTable(HeaderOnlyTable(Head(values)))
  /\ pc' = "returned"
  /\ UNCHANGED <<artifact, values, idx_map_original, updated_values, i,
                 processed_rows_count, errored_rows_count, row_log, rangeVars,
                 read_calls, write_calls, written>>

\* every required column is found: the table starts with updated_header
ResolveHeaderOk ==
  /\ pc = "values"
  /\ values # <<>>
  /\ Tail(values) # <<>>
  /\ ResolveHeaderOp(Head(values)).ok
  /\ header_original' = Head(values)
  /\ data_rows' = Tail(values)
  /\ idx_map_original' = ResolveHeaderOp(Head(values)).map
  /\ updated_values' = <<UpdatedHeader(Head(values))>>
  /\ i' = 0
  /\ processed_rows_count' = 0
  /\ errored_rows_count' = 0
  /\ pc' = "loop"
  /\ UNCHANGED <<artifact, values, row_log, updated_data, rangeVars,
                 read_calls, write_calls, written>>

\* a required column is missing: return None
ResolveHeaderFail ==
  /\ pc = "values"
  /\ values # <<>>
  /\ Tail(values) # <<>>
  /\ ~ResolveHeaderOp(Head(values)).ok
  /\ header_original' = Head(values)
  /\ data_rows' = Tail(values)
  /\ idx_map_original' = ResolveHeaderOp(Head(values)).map
  /\ updated_data' = ReturnNone
  /\ pc' = "returned"
  /\ UNCHANGED <<artifact, values, updated_values, i, processed_rows_count,
                 errored_rows_count, row_log, rangeVars, read_calls,
                 write_calls, written>>

\* (variant: the counter is not incremented)
ErroredAfterNoCount(count, row_error) == count

\* errored_rows_count after an iteration
ErroredAfter(count, row_error) == IF row_error THEN count + 1 ELSE count

\* (variant: a failed row is skipped instead of appended)
ProcessRowSkipsFailed ==
  /\ pc = "loop"
  /\ i < Len(data_rows)
  /\ \E outcome \in PredictOutcomes :
       LET r == TransformRow(data_rows[i + 1], header_original,
                             idx_map_original, artifact, outcome)
       IN /\ updated_values' =
               IF r.row_error THEN updated_values
               ELSE Append(updated_values, r.out_row)
          /\ errored_rows_count' = ErroredAfter(errored_rows_count, r.row_error)
          /\ row_log' = Append(row_log, r)
  /\ processed_rows_count' = processed_rows_count + 1
  /\ i' = i + 1
  /\ UNCHANGED <<pc, artifact, values, header_original, data_rows,
                 idx_map_original, updated_data, rangeVars, read_calls,
                 write_calls, written>>

\* one iteration of the loop over data_rows
ProcessRow ==
  /\ pc = "loop"
  /\ i < Len(data_rows)
  /\ \E outcome \in PredictOutcomes :
       LET r == TransformRow(data_rows[i + 1], header_original,
                             idx_map_original, artifact, outcome)
       IN /\ updated_values' = Append(updated_values, r.out_row)
          /\ errored_rows_count' = ErroredAfter(errored_rows_count, r.row_error)
          /\ row_log' = Append(row_log, r)
  /\ processed_rows_count' = processed_rows_count + 1
  /\ i' = i + 1
  /\ UNCHANGED <<pc, artifact, values, header_original, data_rows,
                 idx_map_original, updated_data, rangeVars, read_calls,
                 write_calls, written>>

\* the loop is over: return updated_values
FinishLoop ==
  /\ pc = "loop"
  /\ i = Len(data_rows)
  /\ updated_data' = ReturnTable(updated_values)
  /\ pc' = "returned"
  /\ UNCHANGED <<artifact, procVars, rangeVars, read_calls, write_calls,
                 written>>

(***************************************************************************)
(* The script after process_sheet_data, and update_sheet.                  *)
(***************************************************************************)
\* updated_data is None: the error message, no call of update_sheet
MainNone ==
  /\ pc = "returned"
  /\ updated_data.kind = "None"
  /\ pc' = "done"
  /\ UNCHANGED <<artifact, procVars, updated_data, rangeVars, read_calls,
                 write_calls, written>>

\* update_sheet returns at one of its two guards
UpdateRefuse ==
  /\ pc = "returned"
  /\ updated_data.kind = "table"
  /\ UpdateRefused(updated_data.table)
  /\ pc' = "done"
  /\ UNCHANGED <<artifact, procVars, updated_data, rangeVars, read_calls,
                 write_calls, written>>

\* update_sheet passes the guards and get_google_sheets_service() fails
UpdateServiceFail ==
  /\ pc = "returned"
  /\ updated_data.kind = "table"
  /\ ~UpdateRefused(updated_data.table)
  /\ ~UpdateRaises(updated_data.table)
  /\ pc' = "stopped"
  /\ UNCHANGED <<artifact, procVars, updated_data, rangeVars, read_calls,
                 write_calls, written>>

\* update_sheet passes the guards, gets the service and takes the dimensions
UpdateBegin ==
  /\ pc = "returned"
  /\ updated_data.kind = "table"
  /\ ~UpdateRefused(updated_data.table)
  /\ ~UpdateRaises(updated_data.table)
  /\ num_rows_to_update' = Len(updated_data.table)
  /\ num_cols_to_update' = Len(updated_data.table[1])
  /\ pc' = "col_begin"
  /\ UNCHANGED <<artifact, procVars, updated_data, temp_index,
                 update_last_col_letter, update_range_string, read_calls,
                 write_calls, written>>

\* update_last_col_letter = '' ; temp_index = num_cols_to_update ; the test
\* for a column count of 0
ColBegin ==
  /\ pc = "col_begin"
  /\ temp_index' = num_cols_to_update
  /\ update_last_col_letter' =
       IF num_cols_to_update = 0 THEN <<"A">> ELSE <<>>
  /\ pc' = IF num_cols_to_update = 0 THEN "range" ELSE "col_loop"
  /\ UNCHANGED <<artifact, procVars, updated_data, num_rows_to_update,
                 num_cols_to_update, update_range_string, read_calls,
                 write_calls, written>>

\* one iteration of the while loop
ColStep ==
  /\ pc = "col_loop"
  /\ temp_index > 0
  /\ temp_index' = ColLoopBody(temp_index, update_last_col_letter).temp_index
  /\ update_last_col_letter' =
       ColLoopBody(temp_index, update_last_col_letter).letter
  /\ UNCHANGED <<pc, artifact, procVars, updated_data, num_rows_to_update,
                 num_cols_to_update, update_range_string, read_calls,
                 write_calls, written>>

\* the loop is over (or was skipped): build update_range_string
BuildRange ==
  /\ \/ pc = "range"
     \/ pc = "col_loop" /\ temp_index = 0
  /\ update_range_string' =
       RangeString(sheet_name_of(RANGE_NAME), update_last_col_letter,
                   num_rows_to_update)
  /\ pc' = "write"
  /\ UNCHANGED <<artifact, procVars, updated_data, num_rows_to_update,
                 num_cols_to_update, temp_index, update_last_col_letter,
                 read_calls, write_calls, written>>

\* the write call is issued and succeeds
WriteOk ==
  /\ pc = "write"
  /\ write_calls' = write_calls + 1
  /\ written' = [issued |-> TRUE, range |-> update_range_string,
                 body |-> updated_data.table]
  /\ pc' = "done"
  /\ UNCHANGED <<artifact, procVars, updated_data, rangeVars, read_calls>>

\* (variant: a failed write is tried again)
WriteFailRetries ==
  /\ pc = "write"
  /\ write_calls' = write_calls + 1
  /\ written' = [issued |-> TRUE, range |-> update_range_string,
                 body |-> updated_data.table]
  /\ pc' = "write"
  /\ UNCHANGED <<artifact, procVars, updated_data, rangeVars, read_calls>>

\* the write call is issued and raises: the error is reported, no retry
WriteFail ==
  /\ pc = "write"
  /\ write_calls' = write_calls + 1
  /\ written' = [issued |-> TRUE, range |-> update_range_string,
                 body |-> updated_data.table]
  /\ pc' = "failed"
  /\ UNCHANGED <<artifact, procVars, updated_data, rangeVars, read_calls>>

Next ==
  \/ GetServiceOk
  \/ GetServiceFail
  \/ LoadModelOk
  \/ LoadModelFail
  \/ ReadOk
  \/ ReadFail
  \/ NoValues
  \/ HeaderOnly
  \/ ResolveHeaderOk
  \/ ResolveHeaderFail
  \/ ProcessRow
  \/ FinishLoop
  \/ MainNone
  \/ UpdateRefuse
  \/ UpdateServiceFail
  \/ UpdateBegin
  \/ ColBegin
  \/ ColStep
  \/ BuildRange
  \/ WriteOk
  \/ WriteFail

Spec == Init /\ [][Next]_vars

(***************************************************************************)
(* The column-letter computation of update_sheet on its own: any column    *)
(* count up to MaxColCount and any row count up to MaxRows + 1.            *)
(***************************************************************************)
InitCol ==
  /\ pc = "col_begin"
  /\ num_cols_to_update \in 0..MaxColCount
  /\ num_rows_to_update \in 1..(MaxRows + 1)
  /\ artifact = NoArtifact
  /\ values = <<>>
  /\ header_original = <<>>
  /\ data_rows = <<>>
  /\ idx_map_original = <<>>
  /\ updated_values = <<>>
  /\ i = 0
  /\ processed_rows_count = 0
  /\ errored_rows_count = 0
  /\ row_log = <<>>
  /\ updated_data = Unset
  /\ temp_index = 0
  /\ update_last_col_letter = <<>>
  /\ update_range_string = <<>>
  /\ read_calls = 0
  /\ write_calls = 0
  /\ written = NotWritten

NextCol ==
  \/ ColBegin
  \/ ColStep
  \/ BuildRange

\* the computation is sequential code: it keeps running until it is over
SpecCol == InitCol /\ [][NextCol]_vars /\ WF_vars(NextCol)

(***************************************************************************)
(* update_sheet on its own, handed any table: the tables a read can        *)
(* return, unprocessed, and the header-only tables of process_sheet_data.  *)
(***************************************************************************)
UpdateTables == Sheets \cup {HeaderOnlyTable(h) : h \in HeaderChoices}

\* the second guard raises IndexError: update_sheet ends with the exception
UpdateRaise ==
  /\ pc = "returned"
  /\ updated_data.kind = "table"
  /\ UpdateRaises(updated_data.table)
  /\ pc' = "raised"
  /\ UNCHANGED <<artifact, procVars, updated_data, rangeVars, read_calls,
                 write_calls, written>>

InitUpdate ==
  /\ pc = "returned"
  /\ \E t \in UpdateTables : updated_data = ReturnTable(t)
  /\ artifact = NoArtifact
  /\ values = <<>>
  /\ header_original = <<>>
  /\ data_rows = <<>>
  /\ idx_map_original = <<>>
  /\ updated_values = <<>>
  /\ i = 0
  /\ processed_rows_count = 0
  /\ errored_rows_count = 0
  /\ row_log = <<>>
  /\ num_rows_to_update = 0
  /\ num_cols_to_update = 0
  /\ temp_index = 0
  /\ update_last_col_letter = <<>>
  /\ update_range_string = <<>>
  /\ read_calls = 0
  /\ write_calls = 0
  /\ written = NotWritten

NextUpdate ==
  \/ UpdateRefuse
  \/ UpdateRaise
  \/ UpdateServiceFail
  \/ UpdateBegin
  \/ ColBegin
  \/ ColStep
  \/ BuildRange
  \/ WriteOk
  \/ WriteFail

SpecUpdate == InitUpdate /\ [][NextUpdate]_vars

(***************************************************************************)
(* Properties.                                                             *)
(***************************************************************************)
\* value of a column label read as a bijective base-26 numeral
RECURSIVE ColDecode(_)
ColDecode(label) ==
  IF label = <<>> THEN 0
  ELSE 26 * ColDecode(SubSeq(label, 1, Len(label) - 1))
       + index(Letters, label[Len(label)])

\* last cell of an output row
LastCell(row) == row[Len(row)]

\* cell j of a row as the sheet shows it: '' beyond the cells the row has
CellAt(row, j) == IF j <= Len(row) THEN row[j] ELSE <<>>

\* a string made of whitespace only (empty included)
Blank(cell) == Range(cell) \subseteq Whitespace

\* the rows the loop has gone through
Done == 1..i

\* the loop has been entered (header resolution succeeded)
Resolved == idx_map_original # <<>>

\* C1: the write range A1:{letter}{rows} covers the table written: as many
\* rows as the table has, and at least as many columns as every row of the
\* table (header row and data rows) is long.
C1_RangeCoversTable ==
  written.issued =>
    /\ num_rows_to_update = Len(written.body)
    /\ written.range = RangeString(s_Pagina1, update_last_col_letter,
                                   num_rows_to_update)
    /\ \A r \in DOMAIN written.body :
         Len(written.body[r]) <= ColDecode(update_last_col_letter)

\* C2: once the header is resolved, the table holds one row per data row gone
\* through, in order: the input row, '' up to the header length, then exactly
\* one probability cell; when the table is returned every data row is in it,
\* whatever failed in earlier rows.
C2_OneOutputRowPerInputRow ==
  Resolved =>
    /\ Len(updated_values) = i + 1
    /\ \A k \in Done :
         LET out == updated_values[k + 1]
             row == data_rows[k]
             n == IF Len(row) < Len(header_original)
                  THEN Len(header_original) ELSE Len(row)
         IN /\ Len(out) = n + 1
            /\ \A j \in 1..n : out[j] = CellAt(row, j)
            /\ LastCell(out) = row_log[k].prob_value
    /\ (updated_data.kind = "table" =>
          /\ updated_data.table = updated_values
          /\ i = Len(data_rows)
          /\ Len(updated_data.table) = Len(data_rows) + 1)

\* a returned table of three rows or more where a row whose prediction raised
\* and a row cut short by the API precede a row that got a probability
C2_Witness ==
  /\ pc = "returned"
  /\ updated_data.kind = "table"
  /\ Resolved
  /\ \E k \in Done, m \in Done, l \in Done :
       /\ k < l
       /\ m < l
       /\ row_log[k].stage = "predict"
       /\ Len(data_rows[m]) < Len(header_original)
       /\ LastCell(updated_values[l + 1]) # <<>>

\* C3 (as claimed): at most one read and one write call; a write call is
\* issued only after a successful read whose header has every required
\* column.
C3_WriteOnlyAfterResolution ==
  /\ read_calls <= 1
  /\ write_calls <= 1
  /\ (written.issued =>
        /\ read_calls = 1
        /\ values # <<>>
        /\ ResolveHeaderOp(header_original).ok)

\* C3 (amended): at most one read and one write call, never repeated; a
\* write call is issued only after a successful read that returned a table,
\* and then either the header was resolved or there is no data row; a failed
\* load, credential lookup or read, or a header that lacks a required column
\* while data rows are present, ends the run without a write call.
C3_WriteOnlyAfterReadAndHeader ==
  /\ read_calls <= 1
  /\ write_calls <= 1
  /\ (written.issued <=> write_calls = 1)
  /\ (written.issued =>
        /\ read_calls = 1
        /\ values # <<>>
        /\ updated_data.kind = "table"
        /\ (Resolved \/ data_rows = <<>>))
  /\ (updated_data.kind = "None" => write_calls = 0)
  /\ (values # <<>> /\ Tail(values) # <<>>
        /\ ~ResolveHeaderOp(Head(values)).ok => write_calls = 0)
  /\ (pc = "stopped" /\ updated_data.kind = "unset" => write_calls = 0)

\* the one write call was issued after a resolved header, it failed, and the
\* run is over
C3_Witness ==
  /\ pc = "failed"
  /\ Resolved
  /\ read_calls = 1
  /\ write_calls = 1

\* C4: a row with a required cell (at its resolved position, '' when the row
\* is shorter) blank gets the probability '', is in the table padded to the
\* header length with that '' appended, and neither the encoder nor the model
\* was called for it.
C4_EmptyFieldRow ==
  Resolved =>
    \A k \in Done :
      (\E f \in DOMAIN idx_map_original :
         Blank(CellAt(data_rows[k], idx_map_original[f])))
      => /\ row_log[k].prob_value = <<>>
         /\ LastCell(updated_values[k + 1]) = <<>>
         /\ Len(updated_values[k + 1]) >= Len(header_original) + 1
         /\ \A j \in 1..(Len(updated_values[k + 1]) - 1) :
              updated_values[k + 1][j] = CellAt(data_rows[k], j)
         /\ ~row_log[k].encoder_called
         /\ ~row_log[k].model_called

\* a row whose only blank required cell is the region code, cut by the API,
\* has gone through the loop under an encoder that accepts unknown codes
C4_Witness ==
  /\ Resolved
  /\ artifact.handle_unknown = "ignore"
  /\ \E k \in Done :
       /\ Len(data_rows[k]) < idx_map_original[s_UF]
       /\ \A f \in DOMAIN idx_map_original :
            f # s_UF => ~Blank(CellAt(data_rows[k], idx_map_original[f]))
       /\ LastCell(updated_values[k + 1]) = <<>>

\* the required cell of a row for a feature, stripped
ReqCell(k, f) == strip(CellAt(data_rows[k], idx_map_original[f]))

\* row k fails for one of the three reasons C5 names
C5_Fails(k) ==
  \/ \E f \in DOMAIN idx_map_original : ReqCell(k, f) = <<>>
  \/ \E f \in Range(NumericFeatures) : ~FloatOk(replace_comma(ReqCell(k, f)))
  \/ /\ artifact.handle_unknown = "error"
     /\ ReqCell(k, s_UF) \notin Range(artifact.categories_)

\* C5: a row with an empty required cell, a number that does not parse or an
\* unknown region code under the strict policy has the probability '' and a
\* row without a failure has a non-empty one; the error counter is the
\* number of rows gone through whose probability is '' (so each such row
\* adds exactly one), and the processed counter is the number of rows gone
\* through, all the data rows once the loop is over.
C5_ErrorCount ==
  Resolved =>
    /\ \A k \in Done :
         /\ (C5_Fails(k) => LastCell(updated_values[k + 1]) = <<>>)
         /\ (row_log[k].stage = "none" =>
               LastCell(updated_values[k + 1]) # <<>>)
         /\ (LastCell(updated_values[k + 1]) = <<>> <=> row_log[k].row_error)
    /\ errored_rows_count =
         Cardinality({k \in Done : LastCell(updated_values[k + 1]) = <<>>})
    /\ processed_rows_count = i
    /\ (pc # "loop" => processed_rows_count = Len(data_rows))

\* the loop is over with a row that did not parse, a row with an unknown
\* region code under the strict policy and a row with a probability
C5_Witness ==
  /\ pc = "returned"
  /\ Resolved
  /\ errored_rows_count >= 2
  /\ \E k \in Done, m \in Done, l \in Done :
       /\ row_log[k].stage = "parse"
       /\ row_log[m].stage = "encode"
       /\ row_log[l].stage = "none"

\* a model feature name that is neither a numeric field nor 'UF_' followed
\* by a category that has a column in the encoder's output
Unresolved(art, name) ==
  /\ name \notin Range(NumericFeatures)
  /\ \A c \in Range(EncodedCategories(art)) : name # UF_(c)

HasUnresolved(art) ==
  \E k \in DOMAIN art.feature_names_in_ :
    Unresolved(art, art.feature_names_in_[k])

\* row k got as far as the assembly of the input vector
Assembled(k) == ~C5_Fails(k)

\* C6 (as claimed): a row assembled under a model that declares a feature
\* name that cannot be resolved is a failed row: its probability is '' and it
\* is counted in the error counter.
C6_UnresolvedFeatureFailsRow ==
  Resolved /\ HasUnresolved(artifact) =>
    /\ \A k \in Done :
         Assembled(k) =>
           /\ row_log[k].row_error
           /\ LastCell(updated_values[k + 1]) = <<>>
    /\ errored_rows_count = i

\* C6 (amended): a feature name that cannot be resolved does not fail the
\* row: its entry of the input vector is 0, the model is still called, and
\* the row fails (probability '', counted) only if that call raises; otherwise
\* it gets a non-empty probability and is not counted.  The loop goes on to
\* the next row either way.
C6_UnresolvedFeatureDefaultsToZero ==
  Resolved /\ HasUnresolved(artifact) =>
    /\ \A k \in Done :
         Assembled(k) =>
           /\ row_log[k].model_called
           /\ Len(row_log[k].input_vector) = Len(artifact.feature_names_in_)
           /\ \A n \in DOMAIN artifact.feature_names_in_ :
                Unresolved(artifact, artifact.feature_names_in_[n])
                => row_log[k].input_vector[n] = Zero
           /\ (row_log[k].row_error <=> row_log[k].stage = "predict")
           /\ (row_log[k].stage # "predict" =>
                 LastCell(updated_values[k + 1]) # <<>>)
    /\ errored_rows_count =
         Cardinality({k \in Done : ~Assembled(k)
                                   \/ row_log[k].stage = "predict"})
    /\ (pc = "loop" => i <= Len(data_rows))
    /\ (pc # "loop" => i = Len(data_rows))

\* under a model with unresolved feature names, a row got a probability and
\* the loop went on to a later row
C6_Witness ==
  /\ Resolved
  /\ HasUnresolved(artifact)
  /\ \E k \in Done, m \in Done :
       /\ k < m
       /\ Assembled(k)
       /\ row_log[k].stage = "none"
       /\ LastCell(updated_values[k + 1]) # <<>>
       /\ errored_rows_count < i

\* the label the loop has produced for the column count it started from
ColFinished == pc = "write" /\ num_cols_to_update >= 1

\* C7: for every column count n >= 1 the loop ends, and its label is made of
\* letters A-Z, reads back as n in bijective base 26, is the label of no
\* other count, and is A, Z, AA, AZ, ZZ, AAA for 1, 26, 27, 52, 702, 703.
C7_ColumnLetter ==
  /\ <>(pc = "write")
  /\ [](pc = "col_loop" => temp_index >= 0 /\ temp_index <= num_cols_to_update)
  /\ [](ColFinished =>
          /\ Range(update_last_col_letter) \subseteq Range(Letters)
          /\ update_last_col_letter # <<>>
          /\ ColDecode(update_last_col_letter) = num_cols_to_update
          /\ \A m \in 1..MaxColCount :
               m # num_cols_to_update => ColLetter(m) # update_last_col_letter
          /\ (num_cols_to_update = 1 => update_last_col_letter = <<"A">>)
          /\ (num_cols_to_update = 26 => update_last_col_letter = <<"Z">>)
          /\ (num_cols_to_update = 27 => update_last_col_letter = <<"A","A">>)
          /\ (num_cols_to_update = 52 => update_last_col_letter = <<"A","Z">>)
          /\ (num_cols_to_update = 702 => update_last_col_letter = <<"Z","Z">>)
          /\ (num_cols_to_update = 703 =>
                update_last_col_letter = <<"A","A","A">>))

\* the loop has ended for 703 columns with the label AAA
C7_Witness ==
  /\ pc = "write"
  /\ num_cols_to_update = 703
  /\ update_last_col_letter = <<"A","A","A">>

\* the digits at the end of a range string, after the column label
RangeRowDigits(range, label) ==
  SubSeq(range, Len(s_Pagina1) + 4 + Len(label) + 1, Len(range))

\* C8: the range of the write call is the sheet name of the read range, then
\* '!A1:', then the label of the number of columns of the header row, then
\* the number of rows of the table in decimal; 5 rows and 7 header columns
\* give '{sheet}!A1:G5'.
C8_RangeString ==
  written.issued =>
    LET label == update_last_col_letter
        digits == RangeRowDigits(written.range, label)
    IN /\ SubSeq(RANGE_NAME, 1, Len(s_Pagina1) + 1) = s_Pagina1 \o <<"!">>
       /\ SubSeq(written.range, 1, Len(s_Pagina1) + 4 + Len(label))
            = s_Pagina1 \o <<"!","A","1",":">> \o label
       /\ Range(label) \subseteq Range(Letters)
       /\ ColDecode(label) = Len(written.body[1])
       /\ digits # <<>>
       /\ Range(digits) \subseteq DigitSet
       /\ Head(digits) # "0"
       /\ DigitsVal(digits) = Len(written.body)
       /\ (Len(written.body) = 5 /\ Len(written.body[1]) = 7 =>
             written.range = s_Pagina1 \o <<"!","A","1",":","G","5">>)

\* a table of 5 rows and 7 header columns was written to '{sheet}!A1:G5'
C8_Witness ==
  /\ written.issued
  /\ Len(written.body) = 5
  /\ Len(written.body[1]) = 7
  /\ written.range = s_Pagina1 \o <<"!","A","1",":","G","5">>

\* C9 (as claimed): the first row of a returned table is the header read
\* followed by one more column, 'Probabilidade'.
C9_HeaderPlusOneColumn ==
  updated_data.kind = "table" /\ updated_data.table # <<>> =>
    /\ header_original = values[1]
    /\ updated_data.table[1] = header_original \o <<s_Probabilidade>>
    /\ Len(updated_data.table[1]) = Len(header_original) + 1

\* C9 (amended): the first row of a returned table is the header read
\* followed by one more column, 'Probabilidade', except when there are data
\* rows and the header read already contains 'Probabilidade': then it is the
\* header read, with no column added.
C9_HeaderPlusProbabilityUnlessPresent ==
  updated_data.kind = "table" /\ updated_data.table # <<>> =>
    /\ header_original = values[1]
    /\ IF data_rows # <<>>
          /\ \E j \in DOMAIN header_original :
               header_original[j] = s_Probabilidade
       THEN updated_data.table[1] = header_original
       ELSE /\ Len(updated_data.table[1]) = Len(header_original) + 1
            /\ \A j \in DOMAIN header_original :
                 updated_data.table[1][j] = header_original[j]
            /\ LastCell(updated_data.table[1]) = s_Probabilidade

\* a table with data rows was returned for a header without 'Probabilidade'
C9_Witness ==
  /\ updated_data.kind = "table"
  /\ data_rows # <<>>
  /\ s_Probabilidade \notin Range(header_original)
  /\ LastCell(updated_data.table[1]) = s_Probabilidade

\* the sheet-side name of each canonical field, as C10 lists them
C10_SheetName ==
  (s_ValorQuitacao :> s_Valor_Parcela)
  @@ (s_Quant_Pagamentos_Via_Boleto :> s_Quant_Boletos_Pagos)
  @@ (s_Quant_Ocorrencia :> s_Idade)
  @@ (s_Atraso :> s_Atraso)
  @@ (s_UF :> s_UF)

\* header resolution has run on the header read (there are data rows)
ResolutionRan == pc \notin {"start", "load", "read", "values", "stopped"}
                 /\ values # <<>> /\ Tail(values) # <<>>

\* C10: when resolution has run, the header is the one read; the index map is
\* either empty (some sheet-side name is absent from the header: None is
\* returned and no row is gone through) or maps each of the five canonical
\* fields to the first position of its sheet-side name.  The map is thus a
\* function of the header alone.
C10_HeaderResolution ==
  ResolutionRan =>
    /\ header_original = values[1]
    /\ IF \A f \in DOMAIN C10_SheetName :
            \E j \in DOMAIN header_original :
              header_original[j] = C10_SheetName[f]
       THEN /\ DOMAIN idx_map_original = DOMAIN C10_SheetName
            /\ \A f \in DOMAIN C10_SheetName :
                 /\ idx_map_original[f] \in DOMAIN header_original
                 /\ header_original[idx_map_original[f]] = C10_SheetName[f]
                 /\ \A j \in 1..(idx_map_original[f] - 1) :
                      header_original[j] # C10_SheetName[f]
       ELSE /\ idx_map_original = <<>>
            /\ updated_data = ReturnNone
            /\ i = 0
            /\ row_log = <<>>
            /\ updated_values = <<>>

\* rows were gone through with the map of a header that repeats two of the
\* names: the first positions are the ones used
C10_Witness ==
  /\ ResolutionRan
  /\ header_original = HeaderDuplicates
  /\ idx_map_original[s_UF] = 1
  /\ idx_map_original[s_Atraso] = 2
  /\ i > 0


\* the region code read for row k
RowUF(k) == ReqCell(k, s_UF)

\* the position of a feature name in the model's feature list, 0 if absent
FeaturePos(name) == index(artifact.feature_names_in_, name)

\* the entries of row k's input vector for UF_CE and UF_SP
IndicatorsCESP(k) ==
  <<row_log[k].input_vector[FeaturePos(UF_(<<"C","E">>))],
    row_log[k].input_vector[FeaturePos(UF_(<<"S","P">>))]>>

\* C11: under a drop-first encoder, in every assembled row the entry of a
\* feature UF_c is 1 when c is a category other than the first and the row's
\* region code is c, and 0 otherwise (c the first category, c no category,
\* or another region code).  With categories AL, CE, SP and features UF_CE,
\* UF_SP the entries are 1,0 for CE, 0,1 for SP, 0,0 for AL and 0,0 for a
\* code that is no category under the non-strict policy, which does not fail
\* the row.  (Stated of the rows gone through, during the loop and at its end.)
C11_DropFirstIndicators ==
  Resolved /\ pc = "loop" /\ artifact.drop = "first" =>
    \A k \in Done :
      row_log[k].model_called =>
        /\ \A n \in DOMAIN artifact.feature_names_in_ :
             LET name == artifact.feature_names_in_[n]
                 c == SubSeq(name, Len(s_UF_) + 1, Len(name))
             IN (Len(name) >= Len(s_UF_)
                 /\ SubSeq(name, 1, Len(s_UF_)) = s_UF_
                 /\ name \notin Range(NumericFeatures))
                => row_log[k].input_vector[n] =
                     IF /\ \E p \in 2..Len(artifact.categories_) :
                             artifact.categories_[p] = c
                        /\ RowUF(k) = c
                     THEN One ELSE Zero
        /\ (/\ artifact.categories_ = <<<<"A","L">>, <<"C","E">>, <<"S","P">>>>
            /\ FeaturePos(UF_(<<"C","E">>)) # 0
            /\ FeaturePos(UF_(<<"S","P">>)) # 0)
           => /\ (RowUF(k) = <<"C","E">> => IndicatorsCESP(k) = <<One, Zero>>)
              /\ (RowUF(k) = <<"S","P">> => IndicatorsCESP(k) = <<Zero, One>>)
              /\ (RowUF(k) = <<"A","L">> => IndicatorsCESP(k) = <<Zero, Zero>>)
              /\ (RowUF(k) \notin Range(artifact.categories_) =>
                    /\ artifact.handle_unknown # "error"
                    /\ IndicatorsCESP(k) = <<Zero, Zero>>
                    /\ row_log[k].stage \in {"none", "predict"}
                    /\ (row_log[k].stage = "none" =>
                          LastCell(updated_values[k + 1]) # <<>>))

\* under the drop-first, non-strict encoder with features UF_CE and UF_SP, a
\* row with region code CE and a later row with a code that is no category
\* both got a probability
C11_Witness ==
  /\ Resolved
  /\ pc = "loop"
  /\ artifact.drop = "first"
  /\ artifact.handle_unknown = "ignore"
  /\ \E k \in Done, m \in Done :
       /\ k < m
       /\ row_log[k].stage = "none"
       /\ RowUF(k) = <<"C","E">>
       /\ IndicatorsCESP(k) = <<One, Zero>>
       /\ row_log[m].stage = "none"
       /\ RowUF(m) \notin Range(artifact.categories_)
       /\ IndicatorsCESP(m) = <<Zero, Zero>>


\* the table handed to update_sheet has no row, or a header row of no column
ZeroTable ==
  /\ updated_data.kind = "table"
  /\ (updated_data.table = <<>> \/ updated_data.table[1] = <<>>)

\* C12: for a table with no row or no column, update_sheet does not raise
\* and, once it is over, has produced a range whose column label is A.
C12_MinimalRange ==
  ZeroTable =>
    /\ pc # "raised"
    /\ (pc \in {"done", "failed"} =>
          /\ update_last_col_letter = <<"A">>
          /\ update_range_string =
               RangeString(s_Pagina1, <<"A">>, Len(updated_data.table)))


\* what C13 says entry n of row k's input vector is
C13_Entry(k, n) ==
  LET name == artifact.feature_names_in_[n]
      c == SubSeq(name, Len(s_UF_) + 1, Len(name))
      first == IF artifact.drop = "first" THEN 2 ELSE 1
  IN IF name \in Range(NumericFeatures)
     THEN FloatVal(replace_comma(ReqCell(k, name)))
     ELSE IF Len(name) >= Len(s_UF_) /\ SubSeq(name, 1, Len(s_UF_)) = s_UF_
     THEN IF /\ \E p \in first..Len(artifact.categories_) :
                  artifact.categories_[p] = c
             /\ RowUF(k) = c
          THEN One ELSE Zero
     ELSE Zero

\* the input vector of row k is as C13 says, and the model was called on it
C13_Vector(k) ==
  /\ row_log[k].model_called
  /\ Len(row_log[k].input_vector) = Len(artifact.feature_names_in_)
  /\ \A n \in DOMAIN artifact.feature_names_in_ :
       row_log[k].input_vector[n] = C13_Entry(k, n)
  /\ (CellAt(data_rows[k], idx_map_original[s_ValorQuitacao])
        = <<"1","5","0",",","5","0">>
      /\ FeaturePos(s_ValorQuitacao) # 0
      => row_log[k].input_vector[FeaturePos(s_ValorQuitacao)]
           = [num |-> 1505, scale |-> 1])

\* C13 (as claimed): every row that reaches the assembly has one entry per
\* model feature name, in the model's order (the parsed number, the
\* indicator or 0, or 0 for any other name), the model is called and the row
\* gets a non-empty probability.
C13_VectorAndProbability ==
  Resolved =>
    \A k \in Done :
      Assembled(k) =>
        /\ C13_Vector(k)
        /\ LastCell(updated_values[k + 1]) # <<>>

\* C13 (amended): the same vector, and the model is called; the row gets a
\* non-empty probability unless that call raises, in which case it gets ''
\* and is a failed row.  (Stated of the rows gone through, during the loop
\* and at its end.)
C13_VectorAndProbabilityUnlessRaise ==
  Resolved /\ pc = "loop" =>
    \A k \in Done :
      Assembled(k) =>
        /\ C13_Vector(k)
        /\ (row_log[k].stage = "predict" =>
              /\ LastCell(updated_values[k + 1]) = <<>>
              /\ row_log[k].row_error)
        /\ (row_log[k].stage # "predict" =>
              /\ LastCell(updated_values[k + 1]) # <<>>
              /\ ~row_log[k].row_error)

\* under a model whose feature list has names that cannot be resolved and
\* whose order is not the sheet's, the row with '150,50' got a probability
C13_Witness ==
  /\ Resolved
  /\ pc = "loop"
  /\ HasUnresolved(artifact)
  /\ \E k \in Done :
       /\ Assembled(k)
       /\ row_log[k].stage = "none"
       /\ FeaturePos(s_ValorQuitacao) # 0
       /\ row_log[k].input_vector[FeaturePos(s_ValorQuitacao)]
            = [num |-> 1505, scale |-> 1]
       /\ \E n \in DOMAIN artifact.feature_names_in_ :
            /\ Unresolved(artifact, artifact.feature_names_in_[n])
            /\ row_log[k].input_vector[n] = Zero
       /\ LastCell(updated_values[k + 1]) # <<>>

\* the column of the header read that is named 'Probabilidade'
ProbColumn == index(header_original, s_Probabilidade)

\* C14: when the header read already has a 'Probabilidade' column, every
\* row of the table written is as long as its header row, and the
\* probability computed for a row is in that row's cell under 'Probabilidade'.
C14_ProbabilityOverwritten ==
  written.issued /\ Resolved /\ ProbColumn # 0 =>
    \A r \in 2..Len(written.body) :
      /\ Len(written.body[r]) = Len(written.body[1])
      /\ written.body[r][ProbColumn] = row_log[r - 1].prob_value

====
